---- MODULE Spec2Model ----
(***************************************************************************)
(* cordova-paramedic, lib/paramedic.js: the orchestration pipeline of one  *)
(* run (exports.run -> ParamedicRunner.run -> runTests / runSauceTests ->  *)
(* cleanUpProject), with the connection watchdog, the wait for the test    *)
(* result and the overall run timeout.                                     *)
(*                                                                         *)
(* One action is one turn of the Node event loop: the callback of an       *)
(* external completion (process exit, HTTP response, driver callback,      *)
(* timer, server event) together with every promise reaction that Q runs   *)
(* on process.nextTick before the next turn.                               *)
(***************************************************************************)
EXTENDS Integers, Sequences, FiniteSets, TLC

\* ---------------------------------------------------------------- bounds
MaxFailed == 2          \* specResults.specFailed ranges over 0..MaxFailed
MaxEvents == 2          \* jasmineDone / disconnect events emitted in one run

\* ------------------------------------------------------------- constants
INITIAL_CONNECTION_TIMEOUT == 300000

VARIABLES
    config,         \* the paramedicConfig of the run (immutable)
    pc,             \* what the promise chain of run() is waiting for
    tempFolder,     \* this.tempFolder: "null" or "dir"
    project,        \* the scaffolded project on disk: "absent", "present", "removed"
    server,         \* this.server: "none" or "started"
    subscriptions,  \* handlers registered with server.on
    command,        \* the cordova build/run child process
    upload,         \* the request.post of uploadApp
    driver,         \* the wd remote session
    timer,          \* the setTimeout of waitForConnection
    wc,             \* the promise of waitForConnection
    wt,             \* the promise of waitForTests
    connection,     \* server.isDeviceConnected()
    events,         \* jasmineDone / disconnect events the server has emitted
    inner,          \* the promise runner.run() returns (after .fin)
    outer,          \* what exports.run hands its caller (after .timeout)
    cleanUpCount,   \* calls of cleanUpProject
    stages          \* the pipeline operations performed, in order

vars == <<config, pc, tempFolder, project, server, subscriptions, command,
          upload, driver, timer, wc, wt, connection, events, inner, outer,
          cleanUpCount, stages>>

\* ------------------------------------------------------------- promises
NoPromise == [state |-> "none", value |-> "none"]
Pending == [state |-> "pending", value |-> "none"]
Fulfilled(v) == [state |-> "fulfilled", value |-> v]
Rejected(e) == [state |-> "rejected", value |-> e]
Thrown(e) == [state |-> "thrown", value |-> e]

\* 'Seems like device not connected to local server in 300 secs'
ERR_MSG ==
    "Seems like device not connected to local server in "
        \o ToString(INITIAL_CONNECTION_TIMEOUT \div 1000) \o " secs"

\* the message exports.run passes to .timeout
RUN_TIMEOUT_MSG == "This test seems to be blocked :: timeout exceeded. Exiting ..."

Actions == {"run", "emulate", "build"}
Platforms == {"android", "ios", "windows"}

Configs == [useSauce : BOOLEAN, action : Actions, platformId : Platforms,
            sauceUser : BOOLEAN, sauceKey : BOOLEAN, cleanUp : BOOLEAN]

\* ------------------------------------------------------ pure helpers
shouldWaitForTestResultAlways == TRUE

shouldWaitForTestResult ==
    config.action = "run" \/ config.action = "emulate"

checkSauceRequirementsNoJustBuild ==
    IF config.useSauce
    THEN IF config.platformId # "android" /\ config.platformId # "ios"
         THEN "Sauce Labs only supports Android and iOS"
         ELSE IF ~config.sauceKey THEN "SAUCE_ACCESS_KEY environment variable not set"
         ELSE IF ~config.sauceUser THEN "SAUCE_USER environment variable not set"
         ELSE "ok"
    ELSE "ok"

checkSauceRequirementsNoUser ==
    IF config.useSauce
    THEN IF config.platformId # "android" /\ config.platformId # "ios"
         THEN "Sauce Labs only supports Android and iOS"
         ELSE IF ~config.sauceKey THEN "SAUCE_ACCESS_KEY environment variable not set"
         ELSE IF ~shouldWaitForTestResult THEN "justBuild cannot be used with shouldUseSauce"
         ELSE "ok"
    ELSE "ok"

\* "ok", or the message of the Error it throws
checkSauceRequirements ==
    IF config.useSauce
    THEN IF config.platformId # "android" /\ config.platformId # "ios"
         THEN "Sauce Labs only supports Android and iOS"
         ELSE IF ~config.sauceKey THEN "SAUCE_ACCESS_KEY environment variable not set"
         ELSE IF ~config.sauceUser THEN "SAUCE_USER environment variable not set"
         ELSE IF ~shouldWaitForTestResult THEN "justBuild cannot be used with shouldUseSauce"
         ELSE "ok"
    ELSE "ok"

isTestPassedAtMostOne(specFailed) == IF specFailed <= 1 THEN "true" ELSE "false"

\* var isTestPassed = (data.specResults.specFailed === 0)
isTestPassed(specFailed) == IF specFailed = 0 THEN "true" ELSE "false"

\* cleanUpProject dereferences this.tempFolder.name when cleanup is configured
cleanUpProjectThrows(tf) == config.cleanUp /\ tf = "null"

\* ------------------------------------------------------------ initial state
Init ==
    /\ config \in Configs
    /\ pc = "idle"
    /\ tempFolder = "null"
    /\ project = "absent"
    /\ server = "none"
    /\ subscriptions = {}
    /\ command = "none"
    /\ upload = "none"
    /\ driver = "none"
    /\ timer = "off"
    /\ wc = NoPromise
    /\ wt = NoPromise
    /\ connection = FALSE
    /\ events = <<>>
    /\ inner = NoPromise
    /\ outer = NoPromise
    /\ cleanUpCount = 0
    /\ stages = <<>>

\* The .fin of run(): the chain has settled with res; cleanUpProject runs,
\* a throw of it replaces res, and the result passes to the .timeout promise
\* unless that has already timed out.  tf and st are this.tempFolder and the
\* stages as the current turn leaves them.
Fin(res, tf, st) ==
    LET final == IF cleanUpProjectThrows(tf) THEN Rejected("TypeError") ELSE res
    IN /\ cleanUpCount' = cleanUpCount + 1
       /\ stages' = Append(st, "cleanUpProject")
       /\ tempFolder' = tf
       /\ project' = IF config.cleanUp /\ tf # "null" THEN "removed"
                     ELSE IF tf # "null" THEN "present" ELSE project
       /\ inner' = final
       /\ outer' = IF outer.state = "pending" THEN final ELSE outer
       /\ pc' = "done"

\* exports.run: new ParamedicRunner, runner.run() up to the creation of the
\* chain (checkSauceRequirements throws synchronously), then .timeout.
Run ==
    /\ pc = "idle"
    /\ IF checkSauceRequirements # "ok"
       THEN /\ pc' = "thrown"
            /\ outer' = Thrown(checkSauceRequirements)
            /\ inner' = inner
       ELSE /\ pc' = "setup"
            /\ outer' = Pending
            /\ inner' = Pending
    /\ UNCHANGED <<config, tempFolder, project, server, subscriptions, command,
                   upload, driver, timer, wc, wt, connection, events,
                   cleanUpCount, stages>>

\* The first callback of the chain: createTempProject, prepareProjectToRunTests,
\* Server.startServer.
SetUp ==
    /\ pc = "setup"
    /\ \E outcome \in {"tmpFails", "prepareFails", "ok"} :
         CASE outcome = "tmpFails" ->
                /\ Fin(Rejected("createTempProject failed"), "null", stages)
                /\ UNCHANGED server
           [] outcome = "prepareFails" ->
                /\ Fin(Rejected("Platform requirements check has failed!"), "dir",
                       stages \o <<"createTempProject">>)
                /\ UNCHANGED server
           [] outcome = "ok" ->
                /\ tempFolder' = "dir"
                /\ project' = "present"
                /\ stages' = stages \o <<"createTempProject", "prepareProjectToRunTests",
                                         "startServer">>
                /\ pc' = "server"
                /\ UNCHANGED <<server, inner, outer, cleanUpCount>>
    /\ UNCHANGED <<config, subscriptions, command, upload, driver, timer, wc, wt,
                   connection, events>>

runSecondCallbackCommandFirst ==
    <<"command", "injectReporters", "subcribeForEvents", "writeMedicConnectionUrl">>

\* The statements of the second callback of run(), in order; self.runTests()
\* launches the cordova command synchronously.
runSecondCallback ==
    <<"injectReporters", "subcribeForEvents", "writeMedicConnectionUrl", "command">>

\* Server.startServer settles; on success the second callback of the chain:
\* injectReporters, subcribeForEvents, writeMedicConnectionUrl and the
\* synchronous part of runTests, which launches the cordova command.
StartServerDone ==
    /\ pc = "server"
    /\ \E outcome \in {"startFails", "writeFails", "ok"} :
         CASE outcome = "startFails" ->
                /\ Fin(Rejected("startServer failed"), tempFolder, stages)
                /\ UNCHANGED <<server, subscriptions, command>>
           [] outcome = "writeFails" ->
                /\ server' = "started"
                /\ subscriptions' = subscriptions \cup {"reporters", "deviceLog", "deviceInfo"}
                /\ Fin(Rejected("writeFileSync failed"), tempFolder,
                       stages \o <<"injectReporters", "subcribeForEvents">>)
                /\ UNCHANGED command
           [] outcome = "ok" ->
                /\ server' = "started"
                /\ subscriptions' = subscriptions \cup {"reporters", "deviceLog", "deviceInfo"}
                /\ stages' = stages \o runSecondCallback
                /\ command' = "running"
                /\ pc' = "command"
                /\ UNCHANGED <<tempFolder, project, inner, outer, cleanUpCount>>
    /\ UNCHANGED <<config, upload, driver, timer, wc, wt, connection, events>>

runTestsFailureCallbackReturns == Fulfilled("undefined")

\* runTests, local: what the rejection callback on execPromise leaves the chain
\* with: it logs and throws Error(command + " returned error code " + code).
runTestsFailureCallback == Rejected("command returned error code")

\* runTests: the callbacks on execPromise.  Local: the success callback calls
\* waitForConnection() and then evaluates the undeclared identifier `reject`;
\* the failure callback throws.  Remote: runSauceTests starts with uploadApp.
CommandExit ==
    /\ pc = "command"
    /\ \E code \in {0, 1} :
         /\ command' = IF code = 0 THEN "ok" ELSE "failed"
         /\ IF config.useSauce
            THEN IF code = 0
                 THEN /\ upload' = "pending"
                      /\ stages' = Append(stages, "uploadApp")
                      /\ pc' = "upload"
                      /\ UNCHANGED <<timer, wc, tempFolder, project, inner, outer,
                                     cleanUpCount>>
                 ELSE /\ Fin(Rejected("execPromise rejected"), tempFolder, stages)
                      /\ UNCHANGED <<upload, timer, wc>>
            ELSE IF code = 0
                 THEN IF shouldWaitForTestResult
                      THEN /\ timer' = "armed"
                           /\ wc' = Pending
                           /\ Fin(Rejected("ReferenceError: reject is not defined"),
                                  tempFolder, Append(stages, "waitForConnection"))
                           /\ UNCHANGED upload
                      ELSE /\ Fin(Fulfilled("undefined"), tempFolder, stages)
                           /\ UNCHANGED <<upload, timer, wc>>
                 ELSE /\ Fin(runTestsFailureCallback, tempFolder, stages)
                      /\ UNCHANGED <<upload, timer, wc>>
    /\ UNCHANGED <<config, server, subscriptions, driver, wt, connection, events>>

uploadAppSettlesIgnoresErr(err) == Fulfilled("httpResponse")

\* uploadApp: what the callback of request.post settles the promise with.
uploadAppSettles(err) ==
    IF err THEN Rejected("upload error") ELSE Fulfilled("httpResponse")

\* uploadApp: the callback of request.post; on success the callback of
\* runSauceTests builds the capabilities and calls driver.init.
UploadDone ==
    /\ pc = "upload"
    /\ \E err \in BOOLEAN :
         IF uploadAppSettles(err).state = "rejected"
         THEN /\ upload' = "failed"
              /\ Fin(uploadAppSettles(err), tempFolder, stages)
              /\ UNCHANGED driver
         ELSE /\ upload' = IF err THEN "failed" ELSE "ok"
              /\ driver' = "initializing"
              /\ stages' = Append(stages, "driver.init")
              /\ pc' = "init"
              /\ UNCHANGED <<tempFolder, project, inner, outer, cleanUpCount>>
    /\ UNCHANGED <<config, server, subscriptions, command, timer, wc, wt,
                   connection, events>>

\* runSauceTests: the callback of driver.init.  With an error it throws from
\* inside the callback, outside any promise: the promise is never settled, and
\* the uncaught exception either ends the process or is swallowed by the caller
\* of the callback.  Without one it calls waitForConnection.
DriverInitDone ==
    /\ pc = "init"
    /\ \E error \in BOOLEAN :
         IF error
         THEN /\ driver' = "failed"
              /\ \E uncaught \in BOOLEAN : pc' = IF uncaught THEN "crashed" ELSE "hung"
              /\ UNCHANGED <<timer, wc, stages>>
         ELSE /\ driver' = "open"
              /\ timer' = "armed"
              /\ wc' = Pending
              /\ stages' = Append(stages, "waitForConnection")
              /\ pc' = "watchdog"
    /\ UNCHANGED <<config, tempFolder, project, server, subscriptions, command,
                   upload, wt, connection, events, inner, outer, cleanUpCount>>

waitForConnectionIgnoresDevice(isDeviceConnected) == Fulfilled("undefined")

\* waitForConnection: what the setTimeout callback settles the promise with,
\* given the value of self.server.isDeviceConnected() it reads.
waitForConnectionSettles(isDeviceConnected) ==
    IF ~isDeviceConnected THEN Rejected(ERR_MSG) ELSE Fulfilled("undefined")

\* waitForConnection: the setTimeout callback, and in the remote chain what
\* follows it: waitForTests on success; on failure the rejection handler of
\* .done, which quits the driver and calls reject() without a reason.
WatchdogExpire ==
    /\ timer = "armed"
    /\ pc # "crashed"
    /\ timer' = "expired"
    /\ wc' = waitForConnectionSettles(connection)
    /\ IF pc = "watchdog"
       THEN IF wc'.state = "fulfilled"
            THEN /\ subscriptions' = subscriptions \cup {"jasmineDone", "disconnect"}
                 /\ wt' = Pending
                 /\ stages' = Append(stages, "waitForTests")
                 /\ pc' = "tests"
                 /\ UNCHANGED <<driver, tempFolder, project, inner, outer, cleanUpCount>>
            ELSE /\ driver' = "quit"
                 /\ Fin(Rejected("undefined"), tempFolder, Append(stages, "driver.quit"))
                 /\ UNCHANGED <<subscriptions, wt>>
       ELSE UNCHANGED <<subscriptions, wt, stages, pc, driver, tempFolder, project,
                        inner, outer, cleanUpCount>>
    /\ UNCHANGED <<config, server, command, upload, connection, events>>

\* The .timeout of exports.run: rejects the promise handed to the caller; the
\* chain of run() is not cancelled.
RunTimeout ==
    /\ outer.state = "pending"
    /\ pc \in {"server", "command", "upload", "init", "watchdog", "tests", "hung"}
    /\ outer' = Rejected(RUN_TIMEOUT_MSG)
    /\ UNCHANGED <<config, pc, tempFolder, project, server, subscriptions, command,
                   upload, driver, timer, wc, wt, connection, events, inner,
                   cleanUpCount, stages>>

\* ------------------------------------------------- the local event server
\* The application under test has been launched and can reach the server; the
\* server keeps emitting what it receives after driver.quit() (the disconnect
\* of the closing session, a late event of the harness).
appLaunched ==
    IF config.useSauce THEN driver = "open" \/ driver = "quit"
    ELSE shouldWaitForTestResult /\ command \in {"running", "ok"}

\* The device-side harness connects; isDeviceConnected() is true from then on.
DeviceConnect ==
    /\ server = "started"
    /\ pc # "crashed"
    /\ appLaunched
    /\ ~connection
    /\ connection' = TRUE
    /\ UNCHANGED <<config, pc, tempFolder, project, server, subscriptions, command,
                   upload, driver, timer, wc, wt, events, inner, outer,
                   cleanUpCount, stages>>

settleAgain(p, res) == IF p.state = "none" THEN p ELSE res

\* resolve / reject of the Q.promise of waitForTests, called by a handler: the
\* first call settles the promise, every later call is ignored.
settle(p, res) == IF p.state = "pending" THEN res ELSE p

canEmit ==
    /\ connection
    /\ appLaunched
    /\ pc # "crashed"
    /\ Len(events) < MaxEvents

\* The server emits jasmineDone; the handler of waitForTests, if registered.
JasmineDone ==
    /\ canEmit
    /\ \E specFailed \in 0..MaxFailed :
         /\ events' = Append(events, [type |-> "jasmineDone", specFailed |-> specFailed,
                                      heard |-> "jasmineDone" \in subscriptions])
         /\ wt' = IF "jasmineDone" \in subscriptions
                  THEN settle(wt, Fulfilled(isTestPassed(specFailed)))
                  ELSE wt
         /\ IF "jasmineDone" \in subscriptions /\ wt' # wt
            THEN /\ driver' = "quit"
                 /\ Fin(Fulfilled("undefined"), tempFolder, Append(stages, "driver.quit"))
            ELSE UNCHANGED <<driver, tempFolder, project, inner, outer, cleanUpCount,
                             stages, pc>>
    /\ UNCHANGED <<config, server, subscriptions, command, upload, timer, wc, connection>>

\* The server emits disconnect; the handler of waitForTests, if registered.
Disconnect ==
    /\ canEmit
    /\ events' = Append(events, [type |-> "disconnect", specFailed |-> 0,
                                 heard |-> "disconnect" \in subscriptions])
    /\ wt' = IF "disconnect" \in subscriptions
             THEN settle(wt, Rejected("device is disconnected before passing the tests"))
             ELSE wt
    /\ IF "disconnect" \in subscriptions /\ wt' # wt
       THEN /\ driver' = "quit"
            /\ Fin(Rejected("undefined"), tempFolder, Append(stages, "driver.quit"))
       ELSE UNCHANGED <<driver, tempFolder, project, inner, outer, cleanUpCount,
                        stages, pc>>
    /\ UNCHANGED <<config, server, subscriptions, command, upload, timer, wc, connection>>

Next ==
    \/ Run
    \/ SetUp
    \/ StartServerDone
    \/ CommandExit
    \/ UploadDone
    \/ DriverInitDone
    \/ WatchdogExpire
    \/ RunTimeout
    \/ DeviceConnect
    \/ JasmineDone
    \/ Disconnect

Spec == Init /\ [][Next]_vars

\* The event loop runs every callback that is due; the events of the device
\* (connect, jasmineDone, disconnect) are not owed to the program.
FairSpec ==
    /\ Spec
    /\ WF_vars(SetUp)
    /\ WF_vars(StartServerDone)
    /\ WF_vars(CommandExit)
    /\ WF_vars(UploadDone)
    /\ WF_vars(DriverInitDone)
    /\ WF_vars(WatchdogExpire)
    /\ WF_vars(RunTimeout)

TypeOK ==
    /\ config \in Configs
    /\ cleanUpCount \in 0..1
    /\ Len(events) <= MaxEvents

\* ------------------------------------------------------------------ claims
\* The caller of exports.run holds a result: a value, a rejection or a throw.
Delivered == outer.state \in {"fulfilled", "rejected", "thrown"}

TimedOut == outer = Rejected(RUN_TIMEOUT_MSG)

BuildOnlyAction == config.action # "run" /\ config.action # "emulate"

ConfigErrors ==
    {"Sauce Labs only supports Android and iOS",
     "SAUCE_ACCESS_KEY environment variable not set",
     "SAUCE_USER environment variable not set",
     "justBuild cannot be used with shouldUseSauce"}

\* No resource of a run exists: no temp project, no server, no command, no
\* upload, no driver session, no timer, no pipeline operation performed.
NothingAcquired ==
    /\ tempFolder = "null"
    /\ project = "absent"
    /\ server = "none"
    /\ subscriptions = {}
    /\ command = "none"
    /\ upload = "none"
    /\ driver = "none"
    /\ timer = "off"
    /\ stages = <<>>

\* C1: for every run started through exports.run, once the caller holds the
\* run's result cleanUpProject has been executed exactly once.
C1_TeardownExactlyOnce == Delivered => cleanUpCount = 1

\* C2: when the command succeeded and isDeviceConnected() was false at the
\* expiry of the watchdog timer (waitForConnection rejected), the run result
\* is a rejection with the connection timeout error naming its duration, and
\* teardown has been performed (the overall run timeout set aside).
C2_WatchdogTimeoutError ==
    (command = "ok" /\ wc.state = "rejected" /\ ~TimedOut)
        => (outer = Rejected(ERR_MSG) /\ cleanUpCount = 1)

\* C3: once the overall run timeout has fired, cleanUpProject is eventually
\* executed, also when the step in flight never settles.
C3_TimeoutLeadsToTeardown == TimedOut ~> (cleanUpCount >= 1)

\* C4: local run/emulate, command exited with 0, device attached before the
\* watchdog expired, first event after attachment is jasmineDone with
\* specFailed = 0: the delivered outcome is passed = true and teardown has
\* been invoked exactly once.
C4_LocalRunPasses ==
    (/\ ~config.useSauce
     /\ shouldWaitForTestResult
     /\ command = "ok"
     /\ connection
     /\ wc.state # "rejected"
     /\ Len(events) >= 1
     /\ events[1].type = "jasmineDone"
     /\ events[1].specFailed = 0
     /\ Delivered
     /\ ~TimedOut)
        => (outer = Fulfilled("true") /\ cleanUpCount = 1)

\* C5: remote mode, session opened, terminal event received by waitForTests:
\* the value the run is fulfilled with is the boolean waitForTests computed
\* (true for specFailed = 0, false for specFailed > 0).
C5_RemoteOutcomeIsTestResult ==
    (config.useSauce /\ wt.state = "fulfilled" /\ outer.state = "fulfilled")
        => outer.value = wt.value

\* C6: build-only local mode: the watchdog timer is never started, waitForTests
\* never subscribes a jasmineDone or disconnect handler, and as soon as the
\* command has exited with 0 the run is fulfilled and torn down, without
\* waiting for any server event.
C6_BuildOnlyNoWait ==
    (~config.useSauce /\ BuildOnlyAction)
        => /\ timer = "off"
           /\ wc.state = "none"
           /\ wt.state = "none"
           /\ "jasmineDone" \notin subscriptions
           /\ "disconnect" \notin subscriptions
           /\ command = "ok" =>
                /\ pc = "done"
                /\ inner = Fulfilled("undefined")
                /\ outer = Fulfilled("undefined") \/ TimedOut
                /\ cleanUpCount = 1

C6_Witness ==
    /\ ~config.useSauce
    /\ config.action = "build"
    /\ command = "ok"
    /\ outer = Fulfilled("undefined")
    /\ cleanUpCount = 1

\* C7: remote mode requested with a build-only action: exports.run throws a
\* configuration error out of checkSauceRequirements and nothing has been
\* acquired or launched.
C7_SauceBuildOnlyRejected ==
    (config.useSauce /\ BuildOnlyAction /\ pc # "idle")
        => /\ pc = "thrown"
           /\ outer.state = "thrown"
           /\ outer.value \in ConfigErrors
           /\ NothingAcquired

C7_Witness ==
    /\ config.useSauce
    /\ config.action = "build"
    /\ config.platformId = "android"
    /\ config.sauceUser
    /\ config.sauceKey
    /\ outer = Thrown("justBuild cannot be used with shouldUseSauce")

\* C8: remote mode requested with SAUCE_USER or SAUCE_ACCESS_KEY (or both)
\* unset: exports.run throws a configuration error at validation and nothing
\* has been acquired.
C8_SauceCredentialsRequired ==
    (config.useSauce /\ (~config.sauceUser \/ ~config.sauceKey) /\ pc # "idle")
        => /\ pc = "thrown"
           /\ outer.state = "thrown"
           /\ outer.value \in ConfigErrors
           /\ NothingAcquired

C8_Witness ==
    /\ config.useSauce
    /\ config.platformId = "ios"
    /\ config.action = "run"
    /\ config.sauceKey
    /\ ~config.sauceUser
    /\ outer = Thrown("SAUCE_USER environment variable not set")

\* C9: when jasmineDone is the first event the handlers of waitForTests
\* receive, waitForTests is fulfilled with true if specFailed = 0 and with
\* false if specFailed > 0.
C9_PassedIffNoSpecFailed ==
    \A i \in 1..Len(events) :
        (/\ events[i].heard
         /\ events[i].type = "jasmineDone"
         /\ \A j \in 1..(i - 1) : ~events[j].heard)
            => /\ events[i].specFailed = 0 => wt = Fulfilled("true")
               /\ events[i].specFailed > 0 => wt = Fulfilled("false")

C9_Witness ==
    /\ Len(events) >= 1
    /\ events[1].heard
    /\ events[1].type = "jasmineDone"
    /\ events[1].specFailed = MaxFailed
    /\ wt = Fulfilled("false")

\* A disconnect event was emitted before any jasmineDone event.
DisconnectBeforeTerminal ==
    \E i \in 1..Len(events) :
        /\ events[i].type = "disconnect"
        /\ \A j \in 1..(i - 1) : events[j].type # "jasmineDone"

\* C10: in a run that waits for results, if a disconnect event occurred before
\* any terminal event, a delivered outcome is a failure, never a fulfilment.
C10_DisconnectIsFailure ==
    ((config.useSauce \/ shouldWaitForTestResult) /\ DisconnectBeforeTerminal /\ Delivered)
        => outer.state = "rejected"

\* C11: an error thrown by cleanUpProject is never what the caller of run()
\* receives: the delivered result is never the teardown error.
C11_TeardownErrorNotPropagated ==
    Delivered => outer # Rejected("TypeError")

\* The position of the first occurrence of operation x in stages, 0 if none.
Pos(x) ==
    IF \E i \in 1..Len(stages) : stages[i] = x
    THEN CHOOSE i \in 1..Len(stages) :
            stages[i] = x /\ \A j \in 1..(i - 1) : stages[j] # x
    ELSE 0

\* driver.init called back without an error.
SessionOpened == driver = "open" \/ driver = "quit"

\* C12: in a remote run whose driver session was opened, driver.quit() has
\* been called by the time the caller holds the run's result and before
\* cleanUpProject runs, on every exit path.
C12_SessionQuitBeforeResult ==
    (config.useSauce /\ SessionOpened)
        => /\ Delivered => driver = "quit"
           /\ cleanUpCount >= 1 =>
                (driver = "quit" /\ Pos("driver.quit") < Pos("cleanUpProject"))

\* C13: when driver.init called back with an error and the caller holds a
\* result, the chain of run() was rejected with the provisioning error,
\* teardown has run, and neither the watchdog nor waitForTests was started.
C13_InitFailureIsFatal ==
    (driver = "failed" /\ Delivered)
        => /\ inner = Rejected("Error starting Appium web driver")
           /\ cleanUpCount = 1
           /\ timer = "off"
           /\ wt = NoPromise

\* C14: in a run that waits for results (waitForConnection followed by
\* waitForTests, the remote chain), every jasmineDone or disconnect event the
\* server emits after the device attached reaches the handlers of
\* waitForTests, also when it fires before the watchdog timer expires.
C14_NoEventLost ==
    (config.useSauce /\ SessionOpened)
        => \A i \in 1..Len(events) : events[i].heard

\* The number of times operation x occurs in stages.
Count(x) == Cardinality({i \in 1..Len(stages) : stages[i] = x})

\* C15: waitForConnection starts one timer; its promise stays pending while
\* the timer is armed, whether or not a device has attached, and is settled
\* in the step in which the timer expires: fulfilled iff isDeviceConnected()
\* is true at that moment, rejected with the timeout error otherwise.  The
\* timer never re-arms, and waitForTests never starts before it has expired.
C15_SingleCheckAtExpiry ==
    /\ [](/\ Count("waitForConnection") <= 1
          /\ timer = "armed" => wc = Pending
          /\ timer = "off" => wc = NoPromise
          /\ wt # NoPromise => timer = "expired")
    /\ [][/\ timer' # timer =>
                \/ timer = "off" /\ timer' = "armed" /\ wc' = Pending
                \/ /\ timer = "armed"
                   /\ timer' = "expired"
                   /\ connection => wc' = Fulfilled("undefined")
                   /\ ~connection => wc' = Rejected(ERR_MSG)
          /\ wc' # wc => timer' # timer]_vars

C15_Witness ==
    /\ timer = "expired"
    /\ connection
    /\ wc = Fulfilled("undefined")
    /\ wt = Pending
    /\ pc = "tests"

\* C16: the build/run command is issued only after the server started, then
\* the reporters and the deviceLog/deviceInfo handlers were subscribed, then
\* the connection URL was written, in this order; it is never issued when the
\* server failed to start.
C16_PipelineOrder ==
    /\ ("command" \in {stages[i] : i \in 1..Len(stages)}) <=> (command # "none")
    /\ command # "none" =>
         /\ server = "started"
         /\ {"reporters", "deviceLog", "deviceInfo"} \subseteq subscriptions
         /\ 0 < Pos("startServer")
         /\ Pos("startServer") < Pos("injectReporters")
         /\ Pos("injectReporters") < Pos("subcribeForEvents")
         /\ Pos("subcribeForEvents") < Pos("writeMedicConnectionUrl")
         /\ Pos("writeMedicConnectionUrl") < Pos("command")
    /\ server = "none" => command = "none"

C16_Witness ==
    /\ command = "running"
    /\ server = "started"
    /\ Pos("writeMedicConnectionUrl") = 6
    /\ Pos("command") = 7

\* C17: the promise of waitForTests is settled by the first jasmineDone or
\* disconnect event its handlers receive (fulfilled by jasmineDone, rejected
\* by disconnect) and never changes afterwards, whatever events follow.
C17_SettledOnceByFirstEvent ==
    [][/\ wt.state \in {"fulfilled", "rejected"} => wt' = wt
       /\ (wt = Pending /\ wt' # wt) =>
            /\ Len(events') = Len(events) + 1
            /\ events'[Len(events')].heard
            /\ \A j \in 1..Len(events) : ~events[j].heard
            /\ events'[Len(events')].type = "jasmineDone" => wt'.state = "fulfilled"
            /\ events'[Len(events')].type = "disconnect" => wt'.state = "rejected"]_vars

C17_Witness ==
    /\ Len(events) = 2
    /\ events[1].heard
    /\ events[1].type = "jasmineDone"
    /\ events[1].specFailed = 0
    /\ events[2].heard
    /\ events[2].type = "disconnect"
    /\ wt = Fulfilled("true")

\* C18: when the mode is not build-only and the build/run command exited with
\* a non-zero status, the run is rejected with the execution error and torn
\* down, and no watchdog, no waitForTests, no upload and no driver session
\* was started.
C18_CommandFailureIsFatal ==
    ((config.useSauce \/ shouldWaitForTestResult) /\ command = "failed")
        => /\ pc = "done"
           /\ inner.state = "rejected"
           /\ inner.value = IF config.useSauce THEN "execPromise rejected"
                            ELSE "command returned error code"
           /\ outer = inner \/ TimedOut
           /\ cleanUpCount = 1
           /\ timer = "off"
           /\ wc = NoPromise
           /\ wt = NoPromise
           /\ upload = "none"
           /\ driver = "none"

C18_Witness ==
    /\ ~config.useSauce
    /\ config.action = "emulate"
    /\ command = "failed"
    /\ outer = Rejected("command returned error code")
    /\ cleanUpCount = 1

====
